---- MODULE Spec2Model ----
(***************************************************************************)
(* Model of the constellation canvas animation (class Constellation), of   *)
(* Utils.debounce and Utils.throttle, and of the page controller (class    *)
(* Portfolio): its visibility handler, which pauses and resumes the        *)
(* animation, its resize handler and its mobile menu.                      *)
(*                                                                         *)
(* Spec follows the renderer, the events it listens to and the calls made  *)
(* on it, on a page that loads the renderer alone.  The one call the page  *)
(* controller makes on the renderer, in its visibility listener, is the    *)
(* operator handleVisibilityChange, applied to the renderer's states.      *)
(* DebounceSpec and ThrottleSpec follow one function made by               *)
(* Utils.debounce and one made by Utils.throttle, called at any time,      *)
(* with the wait and the limit the page controller gives them, on a host   *)
(* that runs a timer's callback at or after its delay.  MenuSpec follows   *)
(* the page controller on a page that has no canvas: the load, resize,     *)
(* scroll and click events its listeners hear, the timers and the frames   *)
(* the host runs for it, and the calls of toggleMobileMenu(),              *)
(* closeMobileMenu(), handleResize(), createParticle() and                 *)
(* Utils.smoothScrollTo().  The window's size changes with the resize      *)
(* event; handleResize() reads it when the debounced listener's timer runs *)
(* or a caller calls it.                                                   *)
(*                                                                         *)
(* Numbers.  JavaScript numbers are modelled in fixed point:               *)
(*   - x, y, vx, vy, mouse.x, mouse.y : 1/PxFine of a pixel (1e-5 px);     *)
(*   - distances                      : 1/CoarsePerPx of a pixel (0.01 px),*)
(*     the exact distance rounded down;                                    *)
(*   - star opacity and star size     : 1/10000;                           *)
(*   - line opacity                   : 1/EdgeOpacityUnits, the unit in    *)
(*     which (maxDistance - d) / maxDistance * 0.5 is an integer;          *)
(*   - width, height, innerWidth, innerHeight : whole pixels.              *)
(* Math.random() returns k/RandDen for a numerator k in 0..RandDen-1.      *)
(***************************************************************************)
EXTENDS Integers, Sequences, FiniteSets, TLC

(* ---------------------------------------------------------------- bounds *)

\* Frames (calls of draw()) a behaviour may produce.
MaxFrames == 3

\* Window resize events a behaviour may contain while the resize listener is
\* registered: the star array is made at most 1 + MaxResizes times.
MaxResizes == 1

\* Calls a behaviour may make of the function debounce returned, of the
\* function throttle returned, and of handleResize().
MaxEvents == 3

\* Timers set, frames requested, scroll events and calls of handleResize()
\* by a caller that a behaviour of the page may add up to.
MaxPageEvents == 2

\* Milliseconds by which the host may be late in running a timer's callback.
MaxLate == 234

(* ------------------------------------------------------------ resolution *)

\* Fine units per pixel: the resolution of positions and velocities.
PxFine == 100000

\* Coarse units per pixel: the resolution of distances.
CoarsePerPx == 100

\* Fine units per coarse unit.
FinePerCoarse == PxFine \div CoarsePerPx

\* Denominator of the values Math.random() returns.
RandDen == 100

\* The random streams a handler may see, as << first numerator, distance
\* between consecutive numerators >>: Math.random() always returning 0;
\* always returning 0.99; returning 0, 0.15, 0.30, ...; and returning
\* 0.05, 0.70, 0.35, 0, ...
Seeds == { << 0, 0 >>, << 99, 0 >>, << 0, 15 >>, << 5, 65 >> }

\* The k-th value (k = 0, 1, ...) Math.random() returns inside one handler
\* whose stream is seed: a numerator over RandDen, so a value in [0, 1).
random(seed, k) == (seed[1] + k * seed[2]) % RandDen

\* Window sizes (innerWidth, innerHeight) the host may have, in pixels.
Dimensions == { <<0, 0>>, <<100, 50>>, <<100, 80>>, <<200, 80>> }

\* Window sizes (innerWidth, innerHeight) of the page controller's window, in
\* pixels: on both sides of the width that closes the mobile menu.
PageDimensions ==
    { << 767, 600 >>, << 768, 600 >>, << 767, 700 >>, << 768, 700 >> }

\* The documents the page controller may be loaded in, by the elements they
\* have: .mobile-menu-btn, .nav, .header and .profile-image, and whether
\* the .mobile-menu-btn lies inside the .header.
FullPage ==
    [ menuBtn |-> TRUE, nav |-> TRUE, header |-> TRUE, btnInHeader |-> TRUE,
      profileImage |-> TRUE ]

BarePage ==
    [ menuBtn |-> FALSE, nav |-> FALSE, header |-> FALSE,
      btnInHeader |-> FALSE, profileImage |-> FALSE ]

Documents ==
    { FullPage,
      [ menuBtn |-> TRUE, nav |-> TRUE, header |-> TRUE,
        btnInHeader |-> FALSE, profileImage |-> FALSE ],
      [ menuBtn |-> TRUE, nav |-> FALSE, header |-> TRUE,
        btnInHeader |-> TRUE, profileImage |-> FALSE ],
      [ menuBtn |-> FALSE, nav |-> TRUE, header |-> FALSE,
        btnInHeader |-> FALSE, profileImage |-> FALSE ],
      BarePage }

\* Scroll offsets (window.pageYOffset) the host may report, in pixels: on
\* both sides of the offset that marks the header as scrolled.
ScrollOffsets == { 50, 51 }

\* Milliseconds by which time passes between two steps.
Delays == { 8, 234 }

\* Pointer positions (clientX, clientY) the host may report, in pixels: the
\* corner a star wrapped on both axes sits on, within mouseInfluence of every
\* star of a 200 x 80 surface and mouseInfluence or more from those of a
\* surface 100 wide.
PointerPositions == { << 200, 80 >> }

(* ------------------------------------------------------------ arithmetic *)

\* a / b rounded to the nearest integer (b > 0), halves away from zero.
RoundDiv(a, b) ==
    IF a >= 0 THEN (2 * a + b) \div (2 * b)
              ELSE -((2 * (-a) + b) \div (2 * b))

RECURSIVE sqrtSearch(_, _, _)
sqrtSearch(n, lo, hi) ==
    IF lo >= hi THEN lo
    ELSE LET mid == (lo + hi + 1) \div 2
         IN  IF mid * mid <= n THEN sqrtSearch(n, mid, hi)
                               ELSE sqrtSearch(n, lo, mid - 1)

\* Math.sqrt at the resolution of the model: the largest r with r*r <= n.
sqrt(n) == sqrtSearch(n, 0, 46340)

\* A fine coordinate at the resolution distances are taken in.
Coarse(v) == RoundDiv(v, FinePerCoarse)

Max(a, b) == IF a >= b THEN a ELSE b

Min(a, b) == IF a <= b THEN a ELSE b

(* ---------------------------------------------------------------- config *)

\* config.starDensity: pixels of area per star.
starDensity == 8000

\* config.maxDistance = 130 px, in coarse units.
maxDistance == 130 * CoarsePerPx

\* config.starSize = { min: 0.5, max: 2 }, in 1/10000.
starSizeMin == 5000

starSizeMax == 20000

\* config.opacity = { min: 0.2, max: 0.8 }, in 1/10000.
opacityMin == 2000

opacityMax == 8000

\* config.speed = { min: -0.3, max: 0.3 } px per frame, in fine units.
speedMin == -30000

speedMax == 30000

\* config.mouseInfluence = 100 px, in coarse units.
mouseInfluence == 100 * CoarsePerPx

\* config.mouseForce = 0.00005 = 1 / mouseForceInv.
mouseForceInv == 20000

\* Units per 1.0 of line opacity: (maxDistance - d) / maxDistance * 0.5 is a
\* whole number of them for every distance d in coarse units.
EdgeOpacityUnits == 2 * maxDistance

\* The wait the page controller gives Utils.debounce, in ms.
resizeWait == 250

\* The limit the page controller gives Utils.throttle, in ms.
scrollLimit == 16

\* debounce's third parameter, which the page controller leaves at its
\* default.
immediate == FALSE

\* The window width above which handleResize() closes the mobile menu.
mobileBreakpoint == 767

\* The scroll offset above which handleScroll() marks the header as
\* scrolled, in pixels.
scrolledOffset == 50

\* The limit setupParallax() gives Utils.throttle, in ms.
parallaxLimit == 16

\* The delay of the navigation a click on an internal link sets off, in ms.
transitionDelay == 300

\* The delay after which createParticle() removes the particle, in ms.
particleLife == 3000

\* duration of Utils.smoothScrollTo() when the caller gives none, in ms.
scrollDuration == 1000

(* ----------------------------------------------------------------- state *)

VARIABLES
    stars,          \* this.stars: sequence of star records
    starsGen,       \* identity of the star objects: which createStars() made them
    lines,          \* this.lines: sequence of line records
    mouse,          \* this.mouse: [x, y]
    animationId,    \* this.animationId: 0 stands for null, else a request id
    width,          \* this.width = canvas.width
    height,         \* this.height = canvas.height
    innerWidth,     \* window.innerWidth
    innerHeight,    \* window.innerHeight
    listeners,      \* registered listeners: set of <<target, type, function>>
    rafPending,     \* host frame scheduler: ids of the callbacks requested
    rafNext,        \* host frame scheduler: the next request id (> 0)
    canvas,         \* what the canvas shows: the last draw(), or blank
    frames,         \* history: number of draw() calls so far
    phase,          \* history: "paused" from a pause() to the next resume(),
                    \*   "resumed" after that resume(), "running" before any pause()
    destroyed,      \* history: destroy() has returned
    timers,         \* host timer table: records [id, fn, args, remaining] of
                    \*   the setTimeout callbacks not yet run, remaining in ms
    timerNext,      \* host timer table: the next timer id (> 0)
    timeout,        \* debounce's closure variable: 0 stands for undefined
                    \*   and for null, else a timer id
    inThrottle,     \* throttle's closure variable: FALSE stands for undefined
    inParallax,     \* the same variable in the closure setupParallax() makes
    scrolling,      \* the animateScroll callbacks of Utils.smoothScrollTo()
                    \*   the host has queued: records [id, remaining], id the
                    \*   frame request and remaining the ms until progress
                    \*   is 1
    dom,            \* the document and its window: whether it has
                    \*   .mobile-menu-btn, .nav, .header and .profile-image,
                    \*   whether the button lies inside the .header, 'active'
                    \*   on the menu button and on the nav,
                    \*   body.style.overflow, --vh in 1/100 px (-1: not set),
                    \*   'scrolled' on the header, the profile image's
                    \*   translateY in -1/2 px (-1: not set),
                    \*   body.style.opacity, document.readyState, the number
                    \*   of .particle elements, and whether the host has
                    \*   unloaded the document
    debouncedCalls, \* history: calls of the function debounce returned;
                    \*   the n-th call carries the argument n
    sinceDebounced, \* history: ms since the last such call, at most
                    \*   resizeWait + 1
    debouncedRuns,  \* history: invocations of the function debounce wraps
    debouncedArgs,  \* history: the argument of its last invocation (0: none)
    throttledCalls, \* history: calls of the function throttle returned;
                    \*   the n-th call carries the argument n
    sinceThrottled, \* history: ms since the last invocation of the function
                    \*   throttle wraps, at most scrollLimit + 1
    throttledRuns,  \* history: invocations of the function throttle wraps
    throttledArgs,  \* history: the argument of its last invocation (0: none)
    resizeRuns,     \* history: calls of handleResize()
    lastCall        \* history: which of toggleMobileMenu(),
                    \*   closeMobileMenu() and handleResize() a listener, a
                    \*   timer or a caller invoked last ("": none)

\* The variables of the renderer and of the host objects it touches.
rendererVars ==
    << stars, starsGen, lines, mouse, animationId, width, height,
       listeners, rafPending, rafNext, canvas, frames, phase,
       destroyed >>

\* The variables of the page controller and of the host objects it touches.
siteVars ==
    << timers, timerNext, timeout, inThrottle, inParallax, scrolling, dom,
       debouncedCalls, sinceDebounced, debouncedRuns, debouncedArgs,
       throttledCalls, sinceThrottled, throttledRuns, throttledArgs,
       resizeRuns, lastCall >>

vars == << rendererVars, innerWidth, innerHeight, siteVars >>

(* ------------------------------------------------- the renderer's record *)

\* The renderer instance and the host objects its methods touch, as one
\* record, so that a method that calls other methods composes them.
This ==
    [ stars |-> stars, starsGen |-> starsGen, lines |-> lines, mouse |-> mouse,
      animationId |-> animationId, width |-> width, height |-> height,
      listeners |-> listeners, rafPending |-> rafPending, rafNext |-> rafNext,
      canvas |-> canvas, frames |-> frames, phase |-> phase,
      destroyed |-> destroyed ]

\* The variables of the renderer take the fields of record s.
Becomes(s) ==
    /\ stars' = s.stars
    /\ starsGen' = s.starsGen
    /\ lines' = s.lines
    /\ mouse' = s.mouse
    /\ animationId' = s.animationId
    /\ width' = s.width
    /\ height' = s.height
    /\ listeners' = s.listeners
    /\ rafPending' = s.rafPending
    /\ rafNext' = s.rafNext
    /\ canvas' = s.canvas
    /\ frames' = s.frames
    /\ phase' = s.phase
    /\ destroyed' = s.destroyed

\* A canvas with nothing drawn on it.
BlankCanvas == [ stars |-> << >>, lines |-> << >> ]

(* ------------------------------------------------------------ the stars *)

\* Math.floor((this.width * this.height) / this.config.starDensity)
numStars(w, h) == (w * h) \div starDensity

\* Math.random() * (max - min) + min, for Math.random() = r / RandDen.
randomBetween(r, min, max) == RoundDiv(r * (max - min), RandDen) + min

\* (Math.random() - 0.5) * (max - min) + min, for Math.random() = r / RandDen.
randomSpeed(r, min, max) ==
    RoundDiv((2 * r - RandDen) * (max - min), 2 * RandDen) + min

\* Math.random() * limit for Math.random() = r / RandDen and limit in pixels,
\* in fine units: exact, PxFine being a multiple of RandDen.
randomCoordinate(r, limit) == r * limit * (PxFine \div RandDen)

\* The i-th star (i = 1, 2, ...) createStars() pushes: six values of the
\* random stream in the order the object literal evaluates them, and the
\* original velocity the trailing forEach copies from vx, vy.
newStar(w, h, seed, k, i) ==
    LET b  == k + 6 * (i - 1)
        vx == randomSpeed(random(seed, b + 4), speedMin, speedMax)
        vy == randomSpeed(random(seed, b + 5), speedMin, speedMax)
    IN  [ x |-> randomCoordinate(random(seed, b), w),
          y |-> randomCoordinate(random(seed, b + 1), h),
          size |-> randomBetween(random(seed, b + 2), starSizeMin, starSizeMax),
          opacity |-> randomBetween(random(seed, b + 3), opacityMin, opacityMax),
          vx |-> vx,
          vy |-> vy,
          originalVx |-> vx,
          originalVy |-> vy ]

\* createStars() without this.stars = []: the new stars are appended.
createStarsAppending(s, seed, k) ==
    [ s EXCEPT !.stars = s.stars \o [ i \in 1 .. numStars(s.width, s.height) |->
                                        newStar(s.width, s.height, seed, k, i) ],
               !.starsGen = s.starsGen + 1 ]

\* createStars(): the star array is replaced by numStars new stars.
createStars(s, seed, k) ==
    [ s EXCEPT !.stars = [ i \in 1 .. numStars(s.width, s.height) |->
                             newStar(s.width, s.height, seed, k, i) ],
               !.starsGen = s.starsGen + 1 ]

\* Number of Math.random() calls of createStars() on a w x h surface.
createStarsDraws(w, h) == 6 * numStars(w, h)

\* resizeCanvas(): the stored and the canvas dimensions become the window's;
\* assigning canvas.width and canvas.height clears the canvas.
resizeCanvas(s, iw, ih) ==
    [ s EXCEPT !.width = iw, !.height = ih, !.canvas = BlankCanvas ]

\* wrap() without its first test: a coordinate below 0 is left there.
wrapWithoutLowerTest(v, limit) == IF v > limit * PxFine THEN 0 ELSE v

\* The two independent wraparound tests of one coordinate, limit in pixels.
wrap(v, limit) ==
    LET L  == limit * PxFine
        v1 == IF v < 0 THEN L ELSE v
    IN  IF v1 > L THEN 0 ELSE v1

\* clampOpacity() without Math.min: only the lower limit is enforced.
clampOpacityBelowOnly(o) == Max(opacityMin, o)

\* Math.max(opacity.min, Math.min(opacity.max, o))
clampOpacity(o) == Max(opacityMin, Min(opacityMax, o))

\* (Math.random() - 0.5) * 0.02, in 1/10000.
opacityDrift(r) == RoundDiv((2 * r - RandDen) * 200, 2 * RandDen)

\* The relaxation at ten times its rate: v += (original - v) * 0.1
restoreByTenth(v, original) == v + RoundDiv(original - v, 10)

\* v += (original - v) * 0.01
restore(v, original) == v + RoundDiv(original - v, 100)

\* The body of updateStars()'s forEach for one star, r the random numerator.
updateStar(star, w, h, r) ==
    [ star EXCEPT !.x = wrap(star.x + star.vx, w),
                  !.y = wrap(star.y + star.vy, h),
                  !.opacity = clampOpacity(star.opacity + opacityDrift(r)),
                  !.vx = restore(star.vx, star.originalVx),
                  !.vy = restore(star.vy, star.originalVy) ]

\* updateStars(): every star in array order, one random value each.
updateStars(s, seed, k) ==
    [ s EXCEPT !.stars = [ i \in 1 .. Len(s.stars) |->
                             updateStar(s.stars[i], s.width, s.height,
                                        random(seed, k + i - 1)) ] ]

\* dx * dx + dy * dy for fine differences dx, dy, in squares of a coarse
\* unit and rounded down: the exact sum, computed in parts of FinePerCoarse
\* so that no intermediate value exceeds the range of the integers.
squareSum(dx, dy) ==
    LET ax   == IF dx < 0 THEN -dx ELSE dx
        ay   == IF dy < 0 THEN -dy ELSE dy
        xh   == ax \div FinePerCoarse
        xl   == ax % FinePerCoarse
        yh   == ay \div FinePerCoarse
        yl   == ay % FinePerCoarse
        low  == xl * xl + yl * yl
        mid  == 2 * (xh * xl + yh * yl) + low \div FinePerCoarse
    IN  xh * xh + yh * yh + mid \div FinePerCoarse

\* Math.sqrt(dx * dx + dy * dy) for fine differences dx, dy, in coarse units
\* and rounded down: it is below a whole number of coarse units exactly when
\* the unrounded distance is.
distanceOf(dx, dy) == sqrt(squareSum(dx, dy))

\* lineOpacity() without the factor 0.5.
lineOpacityWithoutHalf(distance) ==
    ((maxDistance - distance) * EdgeOpacityUnits) \div maxDistance

\* (maxDistance - distance) / maxDistance * 0.5, in 1/EdgeOpacityUnits.
lineOpacity(distance) ==
    (((maxDistance - distance) * EdgeOpacityUnits) \div maxDistance) \div 2

\* The line createLines() pushes for stars i < j, or none: a line refers to
\* its two star objects, named here by array generation and index.
lineOf(st, gen, i, j) ==
    LET distance == distanceOf(st[i].x - st[j].x, st[i].y - st[j].y)
    IN  IF distance < maxDistance
        THEN << [ start |-> [ gen |-> gen, index |-> i ],
                  end |-> [ gen |-> gen, index |-> j ],
                  opacity |-> lineOpacity(distance),
                  distance |-> distance ] >>
        ELSE << >>

\* The inner loop of createLines(): j from jFrom to the last star.
RECURSIVE linesFrom(_, _, _, _)
linesFrom(st, gen, i, j) ==
    IF j > Len(st) THEN << >>
    ELSE lineOf(st, gen, i, j) \o linesFrom(st, gen, i, j + 1)

\* The first value of j in createLines()'s inner loop.
firstPartner(i) == i + 1

\* The outer loop of createLines(): i from iFrom to the last star.
RECURSIVE linesOuter(_, _, _)
linesOuter(st, gen, i) ==
    IF i > Len(st) THEN << >>
    ELSE linesFrom(st, gen, i, firstPartner(i)) \o linesOuter(st, gen, i + 1)

\* createLines(): this.lines is rebuilt from the current stars.
createLines(s) ==
    [ s EXCEPT !.lines = linesOuter(s.stars, s.starsGen, 1) ]

\* force without the falloff: full strength anywhere inside the radius.
forceWithoutFalloff(distance) == mouseInfluence

\* force = (mouseInfluence - distance) / mouseInfluence, in 1/mouseInfluence:
\* the value mouseInfluence stands for 1.
force(distance) == mouseInfluence - distance

\* Fine units of velocity that dx * mouseForce * force comes to, for dx in
\* coarse units and force in 1/mouseInfluence, are their product over this.
ForceDen == (mouseForceInv * mouseInfluence) \div FinePerCoarse

\* The body of applyMouseInfluence()'s forEach for one star.
influenceStar(star, m) ==
    LET dx       == m.x - star.x
        dy       == m.y - star.y
        distance == distanceOf(dx, dy)
    IN  IF distance < mouseInfluence
        THEN [ star EXCEPT
                 !.vx = @ + RoundDiv(Coarse(dx) * force(distance), ForceDen),
                 !.vy = @ + RoundDiv(Coarse(dy) * force(distance), ForceDen) ]
        ELSE star

\* applyMouseInfluence(): every star in array order.
applyMouseInfluence(s) ==
    [ s EXCEPT !.stars = [ i \in 1 .. Len(s.stars) |->
                             influenceStar(s.stars[i], s.mouse) ] ]

\* The star object a line end refers to.  draw() is only ever called from
\* animate(), right after createLines(), so the object is a current star.
starAt(s, ref) == s.stars[ref.index]

\* draw(): the canvas is cleared, then shows every line between the current
\* positions of its two stars, and every star.
draw(s) ==
    [ s EXCEPT
        !.canvas =
            [ lines |-> [ n \in 1 .. Len(s.lines) |->
                            [ start |-> s.lines[n].start,
                              end |-> s.lines[n].end,
                              x1 |-> starAt(s, s.lines[n].start).x,
                              y1 |-> starAt(s, s.lines[n].start).y,
                              x2 |-> starAt(s, s.lines[n].end).x,
                              y2 |-> starAt(s, s.lines[n].end).y,
                              opacity |-> s.lines[n].opacity ] ],
              stars |-> [ i \in 1 .. Len(s.stars) |->
                            [ gen |-> s.starsGen,
                              x |-> s.stars[i].x,
                              y |-> s.stars[i].y,
                              size |-> s.stars[i].size,
                              opacity |-> s.stars[i].opacity ] ] ],
        !.frames = s.frames + 1 ]

(* ------------------------------------------------- the host's scheduler *)

\* requestAnimationFrame(() => this.animate()): the callback is queued under
\* a fresh non-zero id, which is returned (here: left in s.rafNext - 1).
requestAnimationFrame(s) ==
    [ s EXCEPT !.rafPending = s.rafPending \cup { s.rafNext },
               !.rafNext = s.rafNext + 1 ]

\* cancelAnimationFrame(id): the callback queued under id, if any, is dropped.
cancelAnimationFrame(s, id) ==
    [ s EXCEPT !.rafPending = s.rafPending \ { id } ]

\* removeEventListener(type, fn) on target: drops that very registration.
removeEventListener(s, target, type, fn) ==
    [ s EXCEPT !.listeners = s.listeners \ { << target, type, fn >> } ]

\* Whether target has a listener for type.
Listens(target, type) ==
    \E l \in listeners : l[1] = target /\ l[2] = type

(* --------------------------------------------------------- the lifecycle *)

\* step() with createLines() called before updateStars(): the lines are
\* those of the positions of the frame before.
stepWithLinesFirst(s, seed, k) ==
    applyMouseInfluence(updateStars(createLines(s), seed, k))

\* The first half of animate(): the simulation step.
step(s, seed, k) == applyMouseInfluence(createLines(updateStars(s, seed, k)))

\* animate(): step, draw, and request the next frame, keeping its id.
animate(s, seed, k) ==
    LET drawn == draw(step(s, seed, k))
    IN  [ requestAnimationFrame(drawn) EXCEPT !.animationId = drawn.rafNext ]

\* Number of Math.random() calls of one animate().
animateDraws(s) == Len(s.stars)

\* bindEvents(): four anonymous functions are registered.
bindEvents(s) ==
    [ s EXCEPT !.listeners = s.listeners \cup
        { << "window", "resize", "arrow@156" >>,
          << "canvas", "mousemove", "arrow@162" >>,
          << "canvas", "touchmove", "arrow@168" >>,
          << "canvas", "mouseleave", "arrow@176" >> } ]

\* init(), called by the constructor.
init(s, iw, ih, seed) ==
    LET made == bindEvents(createStars(resizeCanvas(s, iw, ih), seed, 0))
    IN  animate(made, seed, createStarsDraws(iw, ih))

\* The fields the constructor sets before it calls init(), with the host's
\* scheduler, canvas and listener table as they are before any script ran.
constructed ==
    [ stars |-> << >>, starsGen |-> 0, lines |-> << >>,
      mouse |-> [ x |-> 0, y |-> 0 ], animationId |-> 0,
      width |-> 0, height |-> 0, listeners |-> {}, rafPending |-> {},
      rafNext |-> 1, canvas |-> BlankCanvas, frames |-> 0,
      phase |-> "running", destroyed |-> FALSE ]

\* pause() without cancelAnimationFrame: the id alone is forgotten.
cancelNothing(s) == s

\* The cancellation inside pause().
cancelPending(s) == cancelAnimationFrame(s, s.animationId)

\* pause() that also drops the stars and lines it will not draw.
pauseReleasing(s) ==
    LET done == IF s.animationId # 0
                THEN [ cancelPending(s) EXCEPT !.animationId = 0 ]
                ELSE s
    IN  [ done EXCEPT !.phase = "paused", !.stars = << >>, !.lines = << >> ]

\* pause(): a scheduled frame is cancelled and its id forgotten.
pause(s) ==
    LET done == IF s.animationId # 0
                THEN [ cancelPending(s) EXCEPT !.animationId = 0 ]
                ELSE s
    IN  [ done EXCEPT !.phase = "paused" ]

\* resume() with its test inverted: animate() only if a frame is scheduled.
resumeIfScheduled(s, seed, k) ==
    LET called == [ s EXCEPT !.phase = IF @ = "paused" THEN "resumed" ELSE @ ]
    IN  IF called.animationId # 0 THEN animate(called, seed, k) ELSE called

\* resume() without its test: animate() whether or not a frame is scheduled.
resumeUnguarded(s, seed, k) ==
    animate([ s EXCEPT !.phase = IF @ = "paused" THEN "resumed" ELSE @ ],
            seed, k)

\* resume(): animate() unless a frame is scheduled.
resume(s, seed, k) ==
    LET called == [ s EXCEPT !.phase = IF @ = "paused" THEN "resumed" ELSE @ ]
    IN  IF called.animationId = 0 THEN animate(called, seed, k) ELSE called

\* destroy(): pause(), then two removeEventListener calls whose function
\* arguments are this.resizeCanvas and this.handleMouseMove (undefined).
destroy(s) ==
    LET paused == pause(s)
        r1     == removeEventListener(paused, "window", "resize", "resizeCanvas")
        r2     == removeEventListener(r1, "canvas", "mousemove", "undefined")
    IN  [ r2 EXCEPT !.destroyed = TRUE ]

\* The resize listener: resizeCanvas() then createStars().
onResize(s, iw, ih, seed) == createStars(resizeCanvas(s, iw, ih), seed, 0)

\* The mousemove and touchmove listeners: the pointer position in fine units.
onPointerMove(s, p) ==
    [ s EXCEPT !.mouse = [ x |-> p[1] * PxFine, y |-> p[2] * PxFine ] ]

\* The mouseleave listener.
onMouseLeave(s) == [ s EXCEPT !.mouse = [ x |-> 0, y |-> 0 ] ]

\* handleVisibilityChange() with its test inverted: resume() when hidden.
handleVisibilityChangeInverted(s, hidden, seed) ==
    IF hidden THEN resume(s, seed, 0) ELSE pause(s)

\* Whether window.constellation is set: the constructor has run.
constellation(s) == s.starsGen > 0

\* Portfolio.handleVisibilityChange(): when window.constellation is set,
\* pause() if the document is hidden, resume() otherwise.
handleVisibilityChange(s, hidden, seed) ==
    IF ~constellation(s) THEN s
    ELSE IF hidden THEN pause(s) ELSE resume(s, seed, 0)

\* The ids of a set in increasing order: the order callbacks were requested.
RECURSIVE inOrder(_)
inOrder(ids) ==
    IF ids = {} THEN << >>
    ELSE LET m == CHOOSE a \in ids : \A b \in ids : a <= b
         IN  << m >> \o inOrder(ids \ { m })

\* One refresh of the host's frame scheduler: the callbacks queued when it
\* starts run in order, each one being animate() and leaving the queue first.
RECURSIVE runCallbacks(_, _, _, _)
runCallbacks(s, ids, seed, k) ==
    IF ids = << >> THEN s
    ELSE IF Head(ids) \notin s.rafPending
         THEN runCallbacks(s, Tail(ids), seed, k)
         ELSE runCallbacks(
                  animate(cancelAnimationFrame(s, Head(ids)), seed, k),
                  Tail(ids), seed, k + animateDraws(s))

(* ---------------------------------------------------- the page controller *)

\* The page controller, the closures of Utils.debounce and Utils.throttle
\* and the host objects they touch, as one record.
Site ==
    [ timers |-> timers, timerNext |-> timerNext, timeout |-> timeout,
      inThrottle |-> inThrottle, inParallax |-> inParallax,
      scrolling |-> scrolling, dom |-> dom, innerWidth |-> innerWidth,
      innerHeight |-> innerHeight, debouncedCalls |-> debouncedCalls,
      sinceDebounced |-> sinceDebounced, debouncedRuns |-> debouncedRuns,
      debouncedArgs |-> debouncedArgs, throttledCalls |-> throttledCalls,
      sinceThrottled |-> sinceThrottled, throttledRuns |-> throttledRuns,
      throttledArgs |-> throttledArgs, resizeRuns |-> resizeRuns,
      lastCall |-> lastCall ]

\* The variables of the page controller take the fields of record p.
SiteBecomes(p) ==
    /\ timers' = p.timers
    /\ timerNext' = p.timerNext
    /\ timeout' = p.timeout
    /\ inThrottle' = p.inThrottle
    /\ inParallax' = p.inParallax
    /\ scrolling' = p.scrolling
    /\ dom' = p.dom
    /\ debouncedCalls' = p.debouncedCalls
    /\ sinceDebounced' = p.sinceDebounced
    /\ debouncedRuns' = p.debouncedRuns
    /\ debouncedArgs' = p.debouncedArgs
    /\ throttledCalls' = p.throttledCalls
    /\ sinceThrottled' = p.sinceThrottled
    /\ throttledRuns' = p.throttledRuns
    /\ throttledArgs' = p.throttledArgs
    /\ resizeRuns' = p.resizeRuns
    /\ lastCall' = p.lastCall

\* The variables of the page controller have the fields of record p.
SiteIs(p) ==
    /\ timers = p.timers
    /\ timerNext = p.timerNext
    /\ timeout = p.timeout
    /\ inThrottle = p.inThrottle
    /\ inParallax = p.inParallax
    /\ scrolling = p.scrolling
    /\ dom = p.dom
    /\ debouncedCalls = p.debouncedCalls
    /\ sinceDebounced = p.sinceDebounced
    /\ debouncedRuns = p.debouncedRuns
    /\ debouncedArgs = p.debouncedArgs
    /\ throttledCalls = p.throttledCalls
    /\ sinceThrottled = p.sinceThrottled
    /\ throttledRuns = p.throttledRuns
    /\ throttledArgs = p.throttledArgs
    /\ resizeRuns = p.resizeRuns
    /\ lastCall = p.lastCall

\* A document doc whose menu is closed, no timer in the host's table, no
\* scroll animation and fresh closures of debounce and throttle.
loaded(doc) ==
    [ timers |-> {}, timerNext |-> 1, timeout |-> 0, inThrottle |-> FALSE,
      inParallax |-> FALSE, scrolling |-> {},
      dom |-> [ menuBtn |-> doc.menuBtn, nav |-> doc.nav,
                header |-> doc.header, btnInHeader |-> doc.btnInHeader,
                profileImage |-> doc.profileImage,
                btnActive |-> FALSE, navActive |-> FALSE, overflow |-> "",
                vh |-> -1, scrolled |-> FALSE, shift |-> -1,
                opacity |-> "0", readyState |-> "interactive",
                particles |-> 0, unloaded |-> FALSE ],
      debouncedCalls |-> 0, sinceDebounced |-> 0, debouncedRuns |-> 0,
      debouncedArgs |-> 0, throttledCalls |-> 0, sinceThrottled |-> 0,
      throttledRuns |-> 0, throttledArgs |-> 0, resizeRuns |-> 0,
      lastCall |-> "" ]

\* setTimeout(fn, delay): the callback is entered in the timer table under a
\* fresh non-zero id, which is returned (here: left in p.timerNext - 1).
setTimeout(p, fn, args, delay) ==
    [ p EXCEPT !.timers = @ \cup { [ id |-> p.timerNext, fn |-> fn,
                                     args |-> args, remaining |-> delay ] },
               !.timerNext = @ + 1 ]

\* clearTimeout that removes nothing.
clearNoTimeout(p, id) == p

\* clearTimeout(id): the timer entered under id, if any, is dropped.
clearTimeout(p, id) ==
    [ p EXCEPT !.timers = { t \in @ : t.id # id } ]

\* toggleMobileMenu() that toggles the class on the nav alone.
toggleNavOnly(p) ==
    LET nav == ~p.dom.navActive
    IN  IF p.dom.menuBtn /\ p.dom.nav
        THEN [ p EXCEPT !.dom.navActive = nav,
                        !.dom.overflow = IF nav THEN "hidden" ELSE "" ]
        ELSE p

\* toggleMobileMenu(): when the document has the button and the nav, 'active'
\* is toggled on both and the body's overflow follows the nav.
toggleMobileMenu(p) ==
    LET btn == ~p.dom.btnActive
        nav == ~p.dom.navActive
    IN  IF p.dom.menuBtn /\ p.dom.nav
        THEN [ p EXCEPT !.dom.btnActive = btn,
                        !.dom.navActive = nav,
                        !.dom.overflow = IF nav THEN "hidden" ELSE "" ]
        ELSE p

\* closeMobileMenu(): when the document has the button and the nav, 'active'
\* is removed from both and the body's overflow cleared.
closeMobileMenu(p) ==
    IF p.dom.menuBtn /\ p.dom.nav
    THEN [ p EXCEPT !.dom.btnActive = FALSE,
                    !.dom.navActive = FALSE,
                    !.dom.overflow = "" ]
    ELSE p

\* updateCSSVariables(): --vh = window.innerHeight * 0.01 px.
updateCSSVariables(p) == [ p EXCEPT !.dom.vh = p.innerHeight ]

\* handleResize()
handleResize(p) ==
    LET updated == updateCSSVariables(p)
    IN  IF p.innerWidth > mobileBreakpoint THEN closeMobileMenu(updated)
                                           ELSE updated

\* func.apply(this, args) inside debounce's closure: the invocation is
\* counted with its argument.
debouncedFunc(p, args) ==
    [ p EXCEPT !.debouncedRuns = @ + 1, !.debouncedArgs = args ]

\* func.apply(this, args) inside throttle's closure: the invocation is
\* counted with its argument.
throttledFunc(p, args) ==
    [ p EXCEPT !.throttledRuns = @ + 1,
               !.throttledArgs = args,
               !.sinceThrottled = 0 ]

\* later(), the timer callback of debounce's closure, for the call it was
\* made in.
later(p, args) ==
    LET cleared == [ p EXCEPT !.timeout = 0 ]
    IN  IF ~immediate THEN debouncedFunc(cleared, args) ELSE cleared

\* The function Utils.debounce(func, wait, immediate) returns, called with
\* args: the pending timer is cleared and a new one set.
debounce(p, args) ==
    LET callNow == immediate /\ p.timeout = 0
        cleared == clearTimeout(p, p.timeout)
        set     == [ setTimeout(cleared, "later", args, resizeWait)
                       EXCEPT !.timeout = cleared.timerNext ]
    IN  IF callNow THEN debouncedFunc(set, args) ELSE set

\* throttle's executedFunction that never sets inThrottle.
throttleWithoutFlag(p, args) == throttledFunc(p, args)

\* The function Utils.throttle(func, limit) returns, called with args.
throttle(p, args) ==
    IF ~p.inThrottle
    THEN setTimeout([ throttledFunc(p, args) EXCEPT !.inThrottle = TRUE ],
                    "unthrottle", args, scrollLimit)
    ELSE p

\* The callback of a timer the host runs.
runTimer(p, t) ==
    IF t.fn = "later" THEN later(p, t.args)
                      ELSE [ p EXCEPT !.inThrottle = FALSE ]

\* Whether the host may run the callback of timer t of p now: its delay has
\* elapsed and no pending timer was due before it.
due(p, t) ==
    /\ t.remaining <= 0
    /\ \A u \in p.timers :
           \/ u.remaining > t.remaining
           \/ u.remaining = t.remaining /\ u.id >= t.id

\* The timer table and the elapsed times after d ms: a timer whose delay
\* has elapsed stays in the table, overdue, until the host runs it.
elapse(p, d) ==
    [ p EXCEPT !.timers = { [ t EXCEPT !.remaining = @ - d ] : t \in @ },
               !.sinceDebounced = Min(@ + d, resizeWait + 1),
               !.sinceThrottled = Min(@ + d, scrollLimit + 1) ]

(* -------------------------------------------------- the page's listeners *)

\* The elements of document d a click may land on: the .mobile-menu-btn, a
\* .nav-link of the .nav, or any other element; internal says whether the
\* element is a link whose href starts with "./" or "/", inHeader whether it
\* lies inside the .header.
Targets(d) ==
    { target \in [ element : { "menuBtn", "navLink", "other" },
                   internal : BOOLEAN, inHeader : BOOLEAN ] :
        /\ target.inHeader => d.header
        /\ target.element = "menuBtn" =>
               /\ d.menuBtn
               /\ ~target.internal
               /\ target.inHeader = d.btnInHeader
        /\ target.element = "navLink" => d.nav }

\* Whether setupMobileMenu() found the button and the nav and registered
\* its click listeners.
menuListens(p) == p.dom.menuBtn /\ p.dom.nav

\* A click on target: the listeners of the element run in the order they
\* were registered, setupMobileMenu()'s before setupSmoothTransitions()'s,
\* then the click listener of the document.
click(p, target) ==
    LET button ==
            IF menuListens(p) /\ target.element = "menuBtn"
            THEN [ toggleMobileMenu(p) EXCEPT !.lastCall = "toggleMobileMenu" ]
            ELSE p
        navLink ==
            IF menuListens(p) /\ target.element = "navLink"
            THEN [ closeMobileMenu(button)
                     EXCEPT !.lastCall = "closeMobileMenu" ]
            ELSE button
        internal ==
            IF target.internal
            THEN setTimeout([ navLink EXCEPT !.dom.opacity = "0" ],
                            "navigate", 0, transitionDelay)
            ELSE navLink
    IN  IF menuListens(p) /\ ~target.inHeader
        THEN [ closeMobileMenu(internal) EXCEPT !.lastCall = "closeMobileMenu" ]
        ELSE internal

\* handleScroll() at scroll offset y: a header has 'scrolled' exactly when
\* y is above scrolledOffset.
handleScroll(p, y) ==
    IF p.dom.header THEN [ p EXCEPT !.dom.scrolled = y > scrolledOffset ]
                    ELSE p

\* The function Utils.throttle returned to setupParallax(), called with
\* args at scroll offset y: the function it wraps moves the profile image
\* up by half the offset.
throttleParallax(p, args, y) ==
    IF ~p.inParallax
    THEN setTimeout([ p EXCEPT !.dom.shift = y, !.inParallax = TRUE ],
                    "unthrottleParallax", args, parallaxLimit)
    ELSE p

\* A scroll event at scroll offset y: the listener setupEventListeners()
\* registered runs, whose throttled function is handleScroll(), then the
\* one of setupParallax() when the document has a .profile-image.
scroll(p, args, y) ==
    LET called == throttle(p, args)
        first  == IF called.throttledRuns # p.throttledRuns
                  THEN handleScroll(called, y)
                  ELSE called
    IN  IF p.dom.profileImage THEN throttleParallax(first, args, y)
                              ELSE first

\* handlePageLoad(): the body fades in.
handlePageLoad(p) == [ p EXCEPT !.dom.opacity = "1" ]

\* createParticle(x, y): the particle is appended to the body and a timer
\* set that removes it.
createParticle(p) ==
    setTimeout([ p EXCEPT !.dom.particles = @ + 1 ],
               "removeParticle", 0, particleLife)

\* The callback of a timer the host runs on the page: the function debounce
\* wraps is the resize listener's, which calls handleResize(); the timer of
\* a click on an internal link sends the window to the link's href, which
\* changes nothing on the page as long as the host keeps it; the timer of
\* createParticle() removes the particle.
runPageTimer(p, t) ==
    IF t.fn = "later"
    THEN [ handleResize(runTimer(p, t)) EXCEPT !.resizeRuns = @ + 1,
                                               !.lastCall = "handleResize" ]
    ELSE IF t.fn = "unthrottle" THEN runTimer(p, t)
    ELSE IF t.fn = "unthrottleParallax" THEN [ p EXCEPT !.inParallax = FALSE ]
    ELSE IF t.fn = "navigate" THEN p
    ELSE [ p EXCEPT !.dom.particles = @ - 1 ]

\* Utils.smoothScrollTo(element, to) on window w, the host's frame scheduler
\* in w.s and the page in w.p: the first frame is requested for
\* animateScroll, duration ms before its progress is 1.
smoothScrollTo(w) ==
    [ w EXCEPT !.s = requestAnimationFrame(@),
               !.p.scrolling = @ \cup { [ id |-> w.s.rafNext,
                                          remaining |-> scrollDuration ] } ]

\* animateScroll(currentTime) for callback a: scrollTop is set, and while
\* progress < 1 the next frame is requested.
animateScroll(w, a) ==
    IF a.remaining > 0
    THEN [ w EXCEPT !.s = requestAnimationFrame(@),
                    !.p.scrolling = @ \cup { [ a EXCEPT !.id = w.s.rafNext ] } ]
    ELSE w

\* One refresh of the host's frame scheduler on the page: the callbacks
\* queued when it starts run in order, each leaving the queue first.
RECURSIVE runScrollCallbacks(_, _)
runScrollCallbacks(w, ids) ==
    IF ids = << >> THEN w
    ELSE LET a == CHOOSE c \in w.p.scrolling : c.id = Head(ids)
             left == [ w EXCEPT !.s = cancelAnimationFrame(@, a.id),
                                !.p.scrolling = @ \ { a } ]
         IN  runScrollCallbacks(animateScroll(left, a), Tail(ids))

\* The times after which a timer of the page becomes due or a scroll
\* animation reaches progress 1, in ms.
deadlines(p) ==
    { d \in { t.remaining : t \in p.timers }
               \cup { a.remaining : a \in p.scrolling } : d > 0 }

\* What the page's events have used of MaxPageEvents.
spent(w) ==
    (w.p.timerNext - 1) + (w.s.rafNext - 1) + w.p.throttledCalls
        + (w.p.resizeRuns - w.p.debouncedRuns)

\* The page after d ms: the timers' delays and the time left to the scroll
\* animations have run down.
pageElapse(p, d) ==
    [ elapse(p, d) EXCEPT !.scrolling = { [ a EXCEPT !.remaining =
                                                Max(@ - d, 0) ] : a \in @ } ]

(* --------------------------------------------------------------- actions *)

\* The state once new Constellation('constellation') has returned.
Init ==
    \E dim \in Dimensions, seed \in Seeds :
        LET s == init(constructed, dim[1], dim[2], seed)
        IN  /\ stars = s.stars
            /\ starsGen = s.starsGen
            /\ lines = s.lines
            /\ mouse = s.mouse
            /\ animationId = s.animationId
            /\ width = s.width
            /\ height = s.height
            /\ listeners = s.listeners
            /\ rafPending = s.rafPending
            /\ rafNext = s.rafNext
            /\ canvas = s.canvas
            /\ frames = s.frames
            /\ phase = s.phase
            /\ destroyed = s.destroyed
            /\ innerWidth = dim[1]
            /\ innerHeight = dim[2]
            /\ SiteIs(loaded(FullPage))

\* The host refreshes the display: the queued frame callbacks run.
Tick ==
    /\ frames + Cardinality(rafPending) <= MaxFrames
    /\ \E seed \in Seeds :
           Becomes(runCallbacks(This, inOrder(rafPending), seed, 0))
    /\ UNCHANGED << innerWidth, innerHeight, siteVars >>

\* The window is resized: its resize listeners run.
Resize ==
    /\ starsGen <= MaxResizes
    /\ \E dim \in Dimensions, seed \in Seeds :
           /\ innerWidth' = dim[1]
           /\ innerHeight' = dim[2]
           /\ IF Listens("window", "resize")
              THEN Becomes(onResize(This, dim[1], dim[2], seed))
              ELSE Becomes(This)
    /\ UNCHANGED siteVars

\* The pointer moves over the canvas.
MouseMove ==
    /\ \E p \in PointerPositions :
           IF Listens("canvas", "mousemove")
           THEN Becomes(onPointerMove(This, p))
           ELSE Becomes(This)
    /\ UNCHANGED << innerWidth, innerHeight, siteVars >>

\* A finger moves over the canvas: touches[0] is the position.
TouchMove ==
    /\ \E p \in PointerPositions :
           IF Listens("canvas", "touchmove")
           THEN Becomes(onPointerMove(This, p))
           ELSE Becomes(This)
    /\ UNCHANGED << innerWidth, innerHeight, siteVars >>

\* The pointer leaves the canvas.
MouseLeave ==
    /\ IF Listens("canvas", "mouseleave")
       THEN Becomes(onMouseLeave(This))
       ELSE Becomes(This)
    /\ UNCHANGED << innerWidth, innerHeight, siteVars >>

\* A caller invokes pause().
Pause ==
    /\ Becomes(pause(This))
    /\ UNCHANGED << innerWidth, innerHeight, siteVars >>

\* A caller invokes resume().
Resume ==
    /\ animationId = 0 => frames < MaxFrames
    /\ \E seed \in Seeds : Becomes(resume(This, seed, 0))
    /\ UNCHANGED << innerWidth, innerHeight, siteVars >>

\* A caller invokes destroy().
Destroy ==
    /\ Becomes(destroy(This))
    /\ UNCHANGED << innerWidth, innerHeight, siteVars >>

Next ==
    \/ Tick
    \/ Resize
    \/ MouseMove
    \/ TouchMove
    \/ MouseLeave
    \/ Pause
    \/ Resume
    \/ Destroy

Spec == Init /\ [][Next]_vars

\* No renderer on the page, and the site as record p gives it.
Without(p) ==
    /\ stars = constructed.stars
    /\ starsGen = constructed.starsGen
    /\ lines = constructed.lines
    /\ mouse = constructed.mouse
    /\ animationId = constructed.animationId
    /\ width = constructed.width
    /\ height = constructed.height
    /\ listeners = constructed.listeners
    /\ rafPending = constructed.rafPending
    /\ rafNext = constructed.rafNext
    /\ canvas = constructed.canvas
    /\ frames = constructed.frames
    /\ phase = constructed.phase
    /\ destroyed = constructed.destroyed
    /\ SiteIs(p)

\* Utils.debounce(func, wait) has returned: its closure is fresh.
DebounceInit ==
    /\ innerWidth = 0
    /\ innerHeight = 0
    /\ Without(loaded(BarePage))

\* The function debounce returned is called, with the number of the call as
\* its argument.
DebouncedCall ==
    /\ debouncedCalls < MaxEvents
    /\ SiteBecomes(debounce([ Site EXCEPT !.debouncedCalls = @ + 1,
                                          !.sinceDebounced = 0 ],
                            debouncedCalls + 1))
    /\ UNCHANGED << rendererVars, innerWidth, innerHeight >>

\* The host runs the callback of a timer whose delay has elapsed.
TimerFires ==
    /\ \E t \in timers :
           /\ due(Site, t)
           /\ SiteBecomes(runTimer([ Site EXCEPT !.timers = @ \ { t } ], t))
    /\ UNCHANGED << rendererVars, innerWidth, innerHeight >>

\* Time passes, whether or not a timer is due: the host is late with a
\* callback by MaxLate ms at most.
TimePasses ==
    /\ \E d \in Delays :
           /\ \A t \in timers : t.remaining - d >= -MaxLate
           /\ SiteBecomes(elapse(Site, d))
    /\ UNCHANGED << rendererVars, innerWidth, innerHeight >>

DebounceNext ==
    \/ DebouncedCall
    \/ TimerFires
    \/ TimePasses

DebounceSpec == DebounceInit /\ [][DebounceNext]_vars

\* Utils.throttle(func, limit) has returned: its closure is fresh.
ThrottleInit ==
    /\ innerWidth = 0
    /\ innerHeight = 0
    /\ Without(loaded(BarePage))

\* The function throttle returned is called, with the number of the call as
\* its argument.
ThrottledCall ==
    /\ throttledCalls < MaxEvents
    /\ SiteBecomes(throttle([ Site EXCEPT !.throttledCalls = @ + 1 ],
                            throttledCalls + 1))
    /\ UNCHANGED << rendererVars, innerWidth, innerHeight >>

ThrottleNext ==
    \/ ThrottledCall
    \/ TimerFires
    \/ TimePasses

ThrottleSpec == ThrottleInit /\ [][ThrottleNext]_vars

\* The window of the page: the host's frame scheduler in s, the page
\* controller and the host objects it touches in p.
Window == [ s |-> This, p |-> Site ]

\* The page controller once new Portfolio() has returned, in a document
\* whose menu is closed and that has no canvas for the renderer.
MenuInit ==
    \E dim \in PageDimensions, doc \in Documents :
        /\ innerWidth = dim[1]
        /\ innerHeight = dim[2]
        /\ Without(loaded(doc))

\* The page's resources have loaded: the load listener runs.
Load ==
    /\ ~dom.unloaded
    /\ dom.readyState = "interactive"
    /\ SiteBecomes([ handlePageLoad(Site)
                       EXCEPT !.dom.readyState = "complete" ])
    /\ UNCHANGED << rendererVars, innerWidth, innerHeight >>

\* The window is resized: the listener debounce returned is called.
WindowResize ==
    /\ ~dom.unloaded
    /\ spent(Window) < MaxPageEvents
    /\ \E dim \in PageDimensions :
           /\ innerWidth' = dim[1]
           /\ innerHeight' = dim[2]
    /\ SiteBecomes(debounce([ Site EXCEPT !.debouncedCalls = @ + 1,
                                          !.sinceDebounced = 0 ],
                            debouncedCalls + 1))
    /\ UNCHANGED rendererVars

\* The page is scrolled: the listeners throttle returned are called.
Scroll ==
    /\ ~dom.unloaded
    /\ spent(Window) < MaxPageEvents
    /\ \E y \in ScrollOffsets :
           SiteBecomes(scroll([ Site EXCEPT !.throttledCalls = @ + 1 ],
                              throttledCalls + 1, y))
    /\ UNCHANGED << rendererVars, innerWidth, innerHeight >>

\* An element of the document is clicked.
Click ==
    /\ ~dom.unloaded
    /\ \E target \in Targets(dom) :
           /\ target.internal => spent(Window) < MaxPageEvents
           /\ SiteBecomes(click(Site, target))
    /\ UNCHANGED << rendererVars, innerWidth, innerHeight >>

\* A caller invokes createParticle().
CreateParticle ==
    /\ ~dom.unloaded
    /\ spent(Window) < MaxPageEvents
    /\ SiteBecomes(createParticle(Site))
    /\ UNCHANGED << rendererVars, innerWidth, innerHeight >>

\* A caller invokes Utils.smoothScrollTo().
SmoothScrollTo ==
    /\ ~dom.unloaded
    /\ spent(Window) < MaxPageEvents
    /\ LET w == smoothScrollTo(Window)
       IN  Becomes(w.s) /\ SiteBecomes(w.p)
    /\ UNCHANGED << innerWidth, innerHeight >>

\* The host refreshes the display of the page: the queued frame callbacks
\* run.
ScrollFrame ==
    /\ ~dom.unloaded
    /\ rafPending # {}
    /\ spent(Window) + Cardinality({ a \in scrolling : a.remaining > 0 })
           <= MaxPageEvents
    /\ LET w == runScrollCallbacks(Window, inOrder(rafPending))
       IN  Becomes(w.s) /\ SiteBecomes(w.p)
    /\ UNCHANGED << innerWidth, innerHeight >>

\* The host runs the callback of a timer of the page whose delay has
\* elapsed.  Once the callback has sent the window to another address the
\* host unloads the document as soon as it has the other one, here: at once
\* or not at all.
PageTimerFires ==
    /\ ~dom.unloaded
    /\ \E t \in timers, gone \in BOOLEAN :
           /\ due(Site, t)
           /\ gone => t.fn = "navigate"
           /\ SiteBecomes([ runPageTimer([ Site EXCEPT !.timers = @ \ { t } ],
                                         t)
                              EXCEPT !.dom.unloaded = gone ])
    /\ UNCHANGED << rendererVars, innerWidth, innerHeight >>

\* Time passes on the page until a timer is due or a scroll animation
\* reaches progress 1, whether or not another timer is due before: the host
\* is late with a callback by MaxLate ms at most.
PageTimePasses ==
    /\ ~dom.unloaded
    /\ \E d \in deadlines(Site) :
           /\ \A t \in timers : t.remaining - d >= -MaxLate
           /\ SiteBecomes(pageElapse(Site, d))
    /\ UNCHANGED << rendererVars, innerWidth, innerHeight >>

\* A caller invokes toggleMobileMenu().
ToggleMobileMenu ==
    /\ ~dom.unloaded
    /\ SiteBecomes([ toggleMobileMenu(Site)
                       EXCEPT !.lastCall = "toggleMobileMenu" ])
    /\ UNCHANGED << rendererVars, innerWidth, innerHeight >>

\* A caller invokes closeMobileMenu().
CloseMobileMenu ==
    /\ ~dom.unloaded
    /\ SiteBecomes([ closeMobileMenu(Site)
                       EXCEPT !.lastCall = "closeMobileMenu" ])
    /\ UNCHANGED << rendererVars, innerWidth, innerHeight >>

\* A caller invokes handleResize(), which reads the size the window has.
HandleResize ==
    /\ ~dom.unloaded
    /\ spent(Window) < MaxPageEvents
    /\ SiteBecomes([ handleResize(Site) EXCEPT !.resizeRuns = @ + 1,
                                               !.lastCall = "handleResize" ])
    /\ UNCHANGED << rendererVars, innerWidth, innerHeight >>

MenuNext ==
    \/ Load
    \/ WindowResize
    \/ Scroll
    \/ Click
    \/ CreateParticle
    \/ SmoothScrollTo
    \/ ScrollFrame
    \/ PageTimerFires
    \/ PageTimePasses
    \/ ToggleMobileMenu
    \/ CloseMobileMenu
    \/ HandleResize

MenuSpec == MenuInit /\ [][MenuNext]_vars

(* ------------------------------------------------------------ properties *)

\* The stars and the lines the canvas shows.
Drawn == canvas.stars

DrawnLines == { canvas.lines[n] : n \in 1 .. Len(canvas.lines) }

\* The square of the distance between two points, in squares of a coarse
\* unit and rounded down, computed without a square root.
SquaredDistance(x1, y1, x2, y2) == squareSum(x1 - x2, y1 - y2)

\* C1 as the spec states it: every star's position lies in the half-open
\* rectangle, 0 <= x < width and 0 <= y < height, for the stored dimensions.
C1_PositionInHalfOpenRectangle ==
    \A i \in 1 .. Len(stars) :
        /\ 0 <= stars[i].x /\ stars[i].x < width * PxFine
        /\ 0 <= stars[i].y /\ stars[i].y < height * PxFine

\* C1 amended: every star's position lies in the closed rectangle,
\* 0 <= x <= width and 0 <= y <= height, for the stored dimensions, after
\* construction and after any sequence of frames and resize events.
C1_PositionInClosedRectangle ==
    \A i \in 1 .. Len(stars) :
        /\ 0 <= stars[i].x /\ stars[i].x <= width * PxFine
        /\ 0 <= stars[i].y /\ stars[i].y <= height * PxFine

\* After a resize, a frame moved a star below 0 and it now sits exactly on
\* the edge x = width.
C1_WrappedOntoEdge ==
    /\ starsGen > 1
    /\ frames > 1
    /\ \E i \in 1 .. Len(stars) : stars[i].x = width * PxFine /\ stars[i].vx < 0

\* C2: every star's opacity lies in [opacity.min, opacity.max], which is
\* [0.2, 0.8], at creation and after any number of frames.
C2_OpacityInRange ==
    /\ 10 * opacityMin = 2 * 10000
    /\ 10 * opacityMax = 8 * 10000
    /\ \A i \in 1 .. Len(stars) :
           opacityMin <= stars[i].opacity /\ stars[i].opacity <= opacityMax

\* A star whose drift was cut off at the upper limit: no star is created
\* with opacity.max, Math.random() being below 1.
C2_ClampedAtMax ==
    \E i \in 1 .. Len(stars) : stars[i].opacity = opacityMax

\* The pairs i < j of drawn stars that are nearer than maxDistance.
NearPairs ==
    { p \in (1 .. Len(Drawn)) \X (1 .. Len(Drawn)) :
        /\ p[1] < p[2]
        /\ SquaredDistance(Drawn[p[1]].x, Drawn[p[1]].y,
                           Drawn[p[2]].x, Drawn[p[2]].y)
             < maxDistance * maxDistance }

\* C3: the lines a frame draws are exactly the pairs i < j of the stars drawn
\* in that frame whose distance, at the positions drawn, is below maxDistance:
\* each such pair once, no other pair, each line between two drawn stars.
C3_DrawnLinesAreNearPairs ==
    /\ { << l.start.index, l.end.index >> : l \in DrawnLines } = NearPairs
    /\ Len(canvas.lines) = Cardinality(NearPairs)
    /\ \A l \in DrawnLines :
           /\ l.start.index \in 1 .. Len(Drawn)
           /\ l.end.index \in 1 .. Len(Drawn)
           /\ l.start.gen = Drawn[l.start.index].gen
           /\ l.end.gen = Drawn[l.end.index].gen
           /\ l.x1 = Drawn[l.start.index].x /\ l.y1 = Drawn[l.start.index].y
           /\ l.x2 = Drawn[l.end.index].x /\ l.y2 = Drawn[l.end.index].y

\* A frame draws a line to a star that its position update has wrapped onto
\* the edge x = width.
C3_LineToWrappedStar ==
    \E l \in DrawnLines :
        /\ l.x1 = width * PxFine
        /\ l.x2 # l.x1
        /\ width > 0

\* The lines of this.lines.
Lines == { lines[n] : n \in 1 .. Len(lines) }

\* C4: a line for a pair at distance d carries the opacity
\* (maxDistance - d) / maxDistance * 0.5 with 0 <= d < maxDistance, so its
\* opacity lies in (0, 0.5] and is 0.5 only at d = 0; d is the distance of
\* the two stars the line joins.
C4_LineOpacity ==
    \A l \in Lines :
        /\ 0 <= l.distance /\ l.distance < maxDistance
        /\ l.opacity * 2 * maxDistance
             = (maxDistance - l.distance) * EdgeOpacityUnits
        /\ 0 < l.opacity /\ 2 * l.opacity <= EdgeOpacityUnits
        /\ (2 * l.opacity = EdgeOpacityUnits) <=> (l.distance = 0)
        /\ l.start.gen = starsGen =>
             LET d2 == SquaredDistance(stars[l.start.index].x,
                                       stars[l.start.index].y,
                                       stars[l.end.index].x,
                                       stars[l.end.index].y)
             IN  /\ l.distance * l.distance <= d2
                 /\ d2 < (l.distance + 1) * (l.distance + 1)

\* A line between two stars that are apart: its opacity is below 0.5.
C4_LineBetweenDistantStars ==
    \E l \in Lines : l.distance > 0 /\ l.start.gen = starsGen

\* C5: after construction and after every resize the number of stars is
\* floor(width * height / starDensity) for the stored dimensions, which are
\* the window's: none when the area is below starDensity, 60 for 800 x 600.
C5_StarCount ==
    /\ width = innerWidth /\ height = innerHeight
    /\ Len(stars) * starDensity <= width * height
    /\ width * height < (Len(stars) + 1) * starDensity
    /\ width * height < starDensity => stars = << >>
    /\ numStars(800, 600) = 60

\* A second star array, made by a resize, holds its two stars and no more.
C5_ResizedToTwoStars ==
    /\ starsGen > 1
    /\ Len(stars) = 2

\* C6: from the return of pause() to the next resume() no frame is produced
\* and no frame callback is queued, whatever happens in between: ticks of the
\* scheduler, resizes, pointer events, further pause() calls; the stars
\* change only by a resize.
C6_NoFrameWhilePaused ==
    [][ (phase = "paused" /\ phase' = "paused") =>
            /\ frames' = frames
            /\ rafPending' = {}
            /\ starsGen' = starsGen => (stars' = stars /\ lines' = lines) ]_vars

\* The renderer is paused, holds a star array made by a resize and a pointer
\* position set by a pointer event.
C6_PausedThroughEvents ==
    /\ phase = "paused"
    /\ starsGen > 1
    /\ mouse.x # 0
    /\ rafPending = {}

\* C7: resume() on a paused renderer produces a frame at once and queues the
\* next one; whenever the renderer is not paused its frame callback is queued
\* with the host's scheduler, and when the scheduler takes it from the queue
\* (a tick) a frame is produced and the next callback is queued.
C7_ResumeProducesFrames ==
    /\ phase # "paused" => animationId \in rafPending
    /\ [][ /\ (phase = "paused" /\ phase' = "resumed") =>
                  (frames' = frames + 1 /\ animationId' \in rafPending')
           /\ phase' # "paused" => animationId' \in rafPending'
           /\ ( /\ phase # "paused"
                /\ phase' # "paused"
                /\ animationId \notin rafPending' ) =>
                  frames' = frames + 1 ]_vars

\* A renderer that was paused and resumed has produced its third frame.
C7_FramesAfterResume ==
    /\ phase = "resumed"
    /\ frames = 3
    /\ animationId \in rafPending

\* C8 as the spec states it: once destroy() has returned, the stored
\* dimensions, the star array and this.mouse, which only the resize and the
\* pointer listeners assign, no longer change.
C8_DestroyReleasesListeners ==
    [][ destroyed => UNCHANGED << width, height, starsGen, mouse >> ]_vars

\* C9 as the spec states it: once destroy() has returned, no frame is
\* produced again.
C9_NoFrameAfterDestroy ==
    [][ destroyed => frames' = frames ]_vars

\* C10: a call of pause() leaves the stars, this.mouse and the stored
\* dimensions as they are, and on a renderer without a scheduled frame it
\* leaves every field of the renderer, the scheduler and the canvas as it is.
C10_PauseLosesNothing ==
    [][ Pause =>
            /\ UNCHANGED << stars, starsGen, mouse, width, height >>
            /\ animationId = 0 =>
                   UNCHANGED << lines, animationId, listeners, rafPending,
                                rafNext, canvas >> ]_vars

\* A paused renderer that holds stars and a pointer position.
C10_PausedWithStarsAndPointer ==
    /\ phase = "paused"
    /\ animationId = 0
    /\ Len(stars) > 0
    /\ mouse.x # 0

\* C11: a star at distance d < mouseInfluence (100 px) from the pointer gets
\* the force factor (mouseInfluence - d) / mouseInfluence, which is in (0, 1]
\* and 1 only at d = 0, and a frame adds dx * mouseForce * force to its vx
\* (dy for vy), mouseForce being 0.00005; to a star with d >= mouseInfluence
\* the frame adds nothing.
C11_PointerForce ==
    /\ [](\A i \in 1 .. Len(stars) :
            LET d == distanceOf(mouse.x - stars[i].x, mouse.y - stars[i].y)
            IN  d < mouseInfluence =>
                    /\ force(d) = mouseInfluence - d
                    /\ 0 < force(d) /\ force(d) <= mouseInfluence
                    /\ (force(d) = mouseInfluence) <=> (d = 0))
    /\ mouseInfluence = 100 * CoarsePerPx
    /\ mouseForceInv * 5 = 100000
    /\ [][ (frames' = frames + 1 /\ starsGen' = starsGen) =>
             \A i \in 1 .. Len(stars') :
                 LET dx      == mouse'.x - stars'[i].x
                     dy      == mouse'.y - stars'[i].y
                     d       == distanceOf(dx, dy)
                     addedVx == stars'[i].vx
                                  - restore(stars[i].vx, stars[i].originalVx)
                     addedVy == stars'[i].vy
                                  - restore(stars[i].vy, stars[i].originalVy)
                     dueVx   == Coarse(dx) * (mouseInfluence - d)
                     dueVy   == Coarse(dy) * (mouseInfluence - d)
                 IN  IF d >= mouseInfluence
                     THEN addedVx = 0 /\ addedVy = 0
                     ELSE /\ 2 * (addedVx * ForceDen - dueVx) <= ForceDen
                          /\ 2 * (dueVx - addedVx * ForceDen) <= ForceDen
                          /\ 2 * (addedVy * ForceDen - dueVy) <= ForceDen
                          /\ 2 * (dueVy - addedVy * ForceDen) <= ForceDen ]_vars

\* A frame has pulled a star towards the pointer, which is to its right: the
\* star's vx is above its originalVx, where relaxation never takes it.
C11_PulledByPointer ==
    /\ frames > 1
    /\ \E i \in 1 .. Len(stars) :
           /\ stars[i].vx > stars[i].originalVx
           /\ stars[i].x < mouse.x
           /\ distanceOf(mouse.x - stars[i].x, mouse.y - stars[i].y)
                < mouseInfluence

\* Whether a frame took the residual v - original of one velocity component
\* from old to new by relaxation alone: to 0.99 of it, to the nearest unit of
\* resolution, without growing it, passing zero or changing its sign, and
\* making it strictly smaller once a hundredth of it reaches half a unit.
Relaxed(old, new) ==
    /\ 2 * (100 * new - 99 * old) <= 100
    /\ 2 * (99 * old - 100 * new) <= 100
    /\ old > 0 => (0 < new /\ new <= old)
    /\ old < 0 => (old <= new /\ new < 0)
    /\ old >= 50 => new < old
    /\ old <= -50 => new > old

\* C12: for a star outside the pointer's influence whose vx differs from its
\* originalVx, every frame shrinks the residual vx - originalVx to 0.99 of
\* it, exactly so where a hundredth of the residual is a whole number of
\* units of resolution and to the nearest unit otherwise, without
\* overshooting or changing its sign, and leaves originalVx as it is; the
\* same for vy.
C12_RelaxesTowardsOriginal ==
    /\ \A original \in { speedMin, 0, 2 * speedMin + 1 } :
           \A k \in -60 .. 60 :
               100 * (restore(original + 100 * k, original) - original)
                 = 99 * (100 * k)
    /\ [][ (frames' = frames + 1 /\ starsGen' = starsGen) =>
             \A i \in 1 .. Len(stars') :
                 /\ stars'[i].originalVx = stars[i].originalVx
                 /\ stars'[i].originalVy = stars[i].originalVy
                 /\ distanceOf(mouse'.x - stars'[i].x, mouse'.y - stars'[i].y)
                      >= mouseInfluence =>
                        /\ Relaxed(stars[i].vx - stars[i].originalVx,
                                   stars'[i].vx - stars'[i].originalVx)
                        /\ Relaxed(stars[i].vy - stars[i].originalVy,
                                   stars'[i].vy - stars'[i].originalVy) ]_vars

\* Three frames were produced and the pointer is away: a star outside its
\* influence carries a vy that an earlier pull left above its originalVy, by
\* enough for a frame to shrink it.
C12_RelaxedAfterPull ==
    /\ frames = 3
    /\ mouse = [ x |-> 0, y |-> 0 ]
    /\ \E i \in 1 .. Len(stars) :
           /\ distanceOf(mouse.x - stars[i].x, mouse.y - stars[i].y)
                >= mouseInfluence
           /\ stars[i].vy - stars[i].originalVy >= 50
           /\ stars[i].vy - stars[i].originalVy < 100

\* C13 as the spec states it: every star's originalVx and originalVy, the
\* values its vx and vy are created with, lie in [speed.min, speed.max],
\* which is [-0.3, 0.3], whatever Math.random() returns.
C13_BaselineSpeedInRange ==
    /\ 10 * speedMin = -3 * PxFine
    /\ 10 * speedMax = 3 * PxFine
    /\ \A i \in 1 .. Len(stars) :
           /\ speedMin <= stars[i].originalVx
           /\ stars[i].originalVx <= speedMax
           /\ speedMin <= stars[i].originalVy
           /\ stars[i].originalVy <= speedMax

\* C14: whatever the interleaving of construction, frame callbacks, pause(),
\* resume() and resize events, at most one frame callback of the renderer is
\* queued with the host's scheduler, and animationId is non-null exactly when
\* one is queued, which it then names; resume() on a renderer with a queued
\* callback changes nothing, and no tick of the scheduler produces more than
\* one frame.
C14_SingleAnimationLoop ==
    /\ [](/\ Cardinality(rafPending) <= 1
          /\ (animationId # 0) <=> (rafPending # {})
          /\ animationId # 0 => rafPending = { animationId })
    /\ [][ /\ (animationId # 0 /\ Resume) => UNCHANGED vars
           /\ frames' <= frames + 1 ]_vars

\* A renderer that was paused, resumed and resized has its one callback
\* queued after its third frame.
C14_LoopAfterResumeAndResize ==
    /\ phase = "resumed"
    /\ starsGen > 1
    /\ frames = 3
    /\ rafPending = { animationId }

\* C15: when window.constellation is set, the listener of visibilitychange
\* leaves the renderer stopped if it finds the document hidden, with no
\* callback queued and no frame produced, and running if it finds it visible,
\* with its one callback queued and a frame produced at once if it was
\* stopped; a second event undoes the first, so the renderer runs exactly
\* when the last event found the document visible.  Between two events the
\* renderer starts or stops only by a call of pause(), resume() or destroy(),
\* which the page makes nowhere else: unless such a call is made it produces
\* no frame while stopped and one frame at every tick while running.
C15_VisibilityGovernsFrames ==
    /\ [](\A seed \in Seeds :
             LET h  == handleVisibilityChange(This, TRUE, seed)
                 v  == handleVisibilityChange(This, FALSE, seed)
                 hv == handleVisibilityChange(h, FALSE, seed)
                 vh == handleVisibilityChange(v, TRUE, seed)
             IN  constellation(This) =>
                     /\ h.phase = "paused"
                     /\ h.animationId = 0
                     /\ h.rafPending = {}
                     /\ h.frames = frames
                     /\ runCallbacks(h, inOrder(h.rafPending), seed, 0).frames
                            = frames
                     /\ v.phase # "paused"
                     /\ v.animationId # 0
                     /\ v.rafPending = { v.animationId }
                     /\ v.frames = IF animationId = 0 THEN frames + 1
                                                      ELSE frames
                     /\ hv.animationId # 0
                     /\ hv.rafPending = { hv.animationId }
                     /\ hv.frames = frames + 1
                     /\ vh.animationId = 0
                     /\ vh.rafPending = {}
                     /\ vh.frames = v.frames)
    /\ [][ phase' = phase =>
              /\ (animationId = 0) <=> (animationId' = 0)
              /\ animationId = 0 => frames' = frames
              /\ (animationId # 0 /\ animationId \notin rafPending') =>
                     frames' = frames + 1 ]_vars

\* The renderer is stopped after its second frame, as the event that finds
\* the document hidden leaves it, and the event that finds the document
\* visible would start it again with its third frame.
C15_ShownAfterHidden ==
    /\ constellation(This)
    /\ phase = "paused"
    /\ frames = 2
    /\ \A seed \in Seeds :
           LET v == handleVisibilityChange(This, FALSE, seed)
           IN  /\ handleVisibilityChange(This, TRUE, seed) = This
               /\ v.frames = 3
               /\ v.rafPending = { v.animationId }

\* The pending timers of debounce's closure and of throttle's.
LaterTimers == { t \in timers : t.fn = "later" }

UnthrottleTimers == { t \in timers : t.fn = "unthrottle" }

\* C16 as the spec states it: with immediate = false and wait = 250 ms, the
\* function debounce wraps is invoked only by the timer of the last call,
\* when exactly wait ms have passed since that call, with the argument of
\* that call, and once per burst: a call made wait ms or more after the one
\* before finds the one before served.
C16_DebouncedExactly ==
    /\ ~immediate
    /\ resizeWait = 250
    /\ [][ /\ debouncedRuns' # debouncedRuns =>
                  /\ debouncedRuns' = debouncedRuns + 1
                  /\ debouncedCalls' = debouncedCalls
                  /\ sinceDebounced = resizeWait
                  /\ debouncedArgs' = debouncedCalls
           /\ (debouncedCalls' # debouncedCalls
                  /\ sinceDebounced >= resizeWait) =>
                  debouncedArgs = debouncedCalls ]_vars

\* C16, amended: with immediate = false and wait = 250 ms, the function
\* debounce wraps is invoked only by the timer of the last call, when wait ms
\* or more have passed since that call and so never while calls arrive
\* less than wait ms apart, with the argument of that call and at most once
\* for it: as long as the last call has not been served exactly one timer
\* is pending for it, due wait ms after it, and none is pending otherwise.
C16_DebouncedNoEarlier ==
    /\ ~immediate
    /\ resizeWait = 250
    /\ [](/\ debouncedRuns <= debouncedCalls
          /\ debouncedArgs <= debouncedCalls
          /\ IF debouncedArgs < debouncedCalls
             THEN \E t \in LaterTimers :
                      /\ LaterTimers = { t }
                      /\ timeout = t.id
                      /\ t.args = debouncedCalls
                      /\ IF sinceDebounced <= resizeWait
                         THEN t.remaining = resizeWait - sinceDebounced
                         ELSE t.remaining < 0
             ELSE LaterTimers = {} /\ timeout = 0)
    /\ [][ debouncedRuns' # debouncedRuns =>
             /\ debouncedRuns' = debouncedRuns + 1
             /\ debouncedCalls' = debouncedCalls
             /\ sinceDebounced >= resizeWait
             /\ debouncedArgs < debouncedCalls
             /\ debouncedArgs' = debouncedCalls ]_vars

\* The first call was served and two more were made after that: the timer
\* of the third is overdue, the host not having run its callback yet.
C16_OverdueTimer ==
    /\ debouncedCalls = 3
    /\ debouncedRuns = 1
    /\ debouncedArgs = 1
    /\ sinceDebounced > resizeWait
    /\ \E t \in LaterTimers : t.args = 3 /\ t.remaining < 0

\* C17: with limit = 16 ms, a call of the function throttle returned made
\* while inThrottle is unset invokes the wrapped function within the call,
\* with the call's argument, and no earlier than limit ms after the
\* invocation before; a call made while inThrottle is set changes nothing,
\* and the wrapped function is never invoked outside a call, so a dropped
\* call is never made up for.  inThrottle is set exactly while the timer
\* that unsets it, due limit ms after the invocation, is pending.
C17_Throttled ==
    /\ scrollLimit = 16
    /\ [](/\ Cardinality(UnthrottleTimers) <= 1
          /\ inThrottle <=> (UnthrottleTimers # {})
          /\ \A t \in UnthrottleTimers :
                 IF sinceThrottled <= scrollLimit
                 THEN t.remaining = scrollLimit - sinceThrottled
                 ELSE t.remaining < 0
          /\ throttledRuns <= throttledCalls)
    /\ [][ /\ (throttledCalls' # throttledCalls /\ ~inThrottle) =>
                  /\ throttledRuns' = throttledRuns + 1
                  /\ throttledArgs' = throttledCalls'
                  /\ throttledRuns > 0 => sinceThrottled >= scrollLimit
                  /\ inThrottle'
           /\ (throttledCalls' # throttledCalls /\ inThrottle) =>
                  /\ throttledRuns' = throttledRuns
                  /\ throttledArgs' = throttledArgs
                  /\ UNCHANGED << timers, inThrottle >>
           /\ throttledCalls' = throttledCalls =>
                  /\ throttledRuns' = throttledRuns
                  /\ throttledArgs' = throttledArgs ]_vars

\* Of three calls the second was dropped inside the window of the first and
\* the third, after the window, invoked the wrapped function again.
C17_DroppedThenInvoked ==
    /\ throttledCalls = 3
    /\ throttledRuns = 2
    /\ throttledArgs = 3
    /\ inThrottle

\* Whether the mobile menu is closed in p.
MenuClosed(p) ==
    /\ ~p.dom.btnActive
    /\ ~p.dom.navActive
    /\ p.dom.overflow = ""

\* C18: on the page, from a closed menu and whatever the clicks, resizes,
\* scrolls, timers, frames and calls of toggleMobileMenu(), closeMobileMenu()
\* and handleResize(), the button has 'active' exactly when the nav has it,
\* which is exactly when the body's overflow is 'hidden'; closeMobileMenu()
\* ends with the menu closed, which it stays until toggleMobileMenu() is
\* called, and changes nothing when the menu is closed already;
\* handleResize(), called by the debounced resize listener or by a caller
\* while the window is wider than 767 px, ends with the menu closed.
C18_MenuConsistent ==
    /\ mobileBreakpoint = 767
    /\ [](/\ dom.btnActive <=> dom.navActive
          /\ dom.navActive <=> (dom.overflow = "hidden")
          /\ dom.overflow \in { "", "hidden" }
          /\ lastCall = "closeMobileMenu" => MenuClosed(Site)
          /\ MenuClosed(closeMobileMenu(Site))
          /\ closeMobileMenu(closeMobileMenu(Site)) = closeMobileMenu(Site)
          /\ innerWidth > mobileBreakpoint => MenuClosed(handleResize(Site)))
    /\ [][ /\ (CloseMobileMenu /\ MenuClosed(Site)) => UNCHANGED dom
           /\ (resizeRuns' # resizeRuns /\ innerWidth > mobileBreakpoint) =>
                  /\ ~dom'.btnActive
                  /\ ~dom'.navActive
                  /\ dom'.overflow = "" ]_vars

\* The debounced resize listener has called handleResize() in a wide window
\* and the menu was opened again by a click on the button; the window was
\* resized once more and is wide, and the timer of that resize is pending.
C18_OpenedAgain ==
    /\ resizeRuns = 1
    /\ debouncedRuns = 1
    /\ debouncedCalls = 2
    /\ LaterTimers # {}
    /\ lastCall = "toggleMobileMenu"
    /\ innerWidth > mobileBreakpoint
    /\ dom.btnActive
    /\ dom.navActive
    /\ dom.overflow = "hidden"

====
